---- MODULE Spec2Model ----
(***************************************************************************)
(* Render-tracker job queue: the jobs table of JobDatabase, the claim and  *)
(* status-update statements that run against it, and the HTTP handlers of  *)
(* server.py that call them and broadcast a job_update event.              *)
(*                                                                         *)
(* Spec      the single server process: its handlers are coroutines that   *)
(*           call the database synchronously, so each database method     *)
(*           runs to completion before another handler runs.              *)
(* SpecConc  several connections on the same database file.  Every         *)
(*           JobDatabase method opens its own sqlite connection; one SQL   *)
(*           statement is one atomic step, and a method that issues two    *)
(*           statements (get_next_job: SELECT, then UPDATE) is two steps   *)
(*           with statements of other connections in between: Python's     *)
(*           sqlite3 opens the implicit transaction only before the        *)
(*           UPDATE, not before the SELECT.                                *)
(* SpecRace  NumProcs connections that each call get_next_job once and     *)
(*           nothing else.                                                 *)
(* SpecClaimRace  NumProcs connections that each call claim_job once.      *)
(* SpecSeq   one caller that calls get_next_job again and again.           *)
(* SpecClaim the single server process serving claim_job requests and      *)
(*           status updates back to inactive, the job_id of the last       *)
(*           claim request kept in sel[1].                                 *)
(* SpecStatus  the single server process serving status-update requests    *)
(*           with any id and any status string, the request kept in       *)
(*           sel[1].                                                       *)
(* SpecClock several connections inside update_job_status, each reading    *)
(*           the clock in one step and executing its UPDATE in a later     *)
(*           one.                                                          *)
(* SpecAll   the single server process serving every handler that writes   *)
(*           the store (claims, status updates, flag, star, single and     *)
(*           bulk resets), all at one reading of the clock.                *)
(* SpecStats the single server process serving claims, status updates     *)
(*           with any status string and GET /stats, at one reading of the  *)
(*           clock.                                                        *)
(* SpecStar  the single server process serving star toggles and status     *)
(*           updates at one reading of the clock, the toggled job and its  *)
(*           starred value before the toggle kept in sel[1].               *)
(* SpecReset the single server process serving status updates and the two  *)
(*           bulk resets, in which db.update_job_status may raise for one  *)
(*           job of a loop.                                                *)
(* SpecPage  the same handlers on a store that holds more jobs than the    *)
(*           scan of a bulk reset reads.                                   *)
(* SpecNotifyRace  the websocket endpoints and manager.broadcast as        *)
(*           coroutines of one event loop: connections open and close at   *)
(*           any await of a broadcast.                                     *)
(* SpecWasabi  the single server process serving resets of one job with any*)
(*           id, the bucket holding any files, the deletion switched on or*)
(*           off, and the storage call failing or not.                    *)
(* SpecRead  the single server process serving claims, status updates and *)
(*           GET /job/{id} while the clock advances.                      *)
(* SpecGraph the single server process serving status-update requests with*)
(*           any id and any status string on a store seeded with any      *)
(*           statuses.                                                    *)
(* SpecFanout  status updates of one job as coroutines of one event loop: *)
(*           each commits its UPDATE and then sends its event to every    *)
(*           connection, other updates running at the awaits of the sends.*)
(* SpecBulkRace  the bulk resets as coroutines of one event loop: their scan*)
(*           and their loop of writes are separated by the awaits of the  *)
(*           deletions, at which other handlers run.                      *)
(* SpecDrain workers that call get_next_job over and over beside bulk     *)
(*           resets, every call that has begun running to its end.        *)
(* SpecPreview  the single server process serving GET /preview/{id} with any*)
(*           id on any traits.json.                                       *)
(*                                                                         *)
(* jobs      the jobs table: id -> status, updated_at, start_time,         *)
(*           worker_url, starred                                           *)
(* now       the clock datetime.now() reads                                *)
(* pc, sel   per connection: where it is inside its call, and the row its  *)
(*           SELECT fetched (get_next_job) or the id it asked for          *)
(*           (claim_job)                                                   *)
(* last      what the last request did: the handler, whether it           *)
(*           succeeded, the job it changed and the worker_url it stored    *)
(*           (0 and None when it changed nothing), the response body and   *)
(*           the event it broadcast                                        *)
(* returned  the job ids the counted claim calls returned, in order        *)
(*           (SpecSeq, SpecRace, SpecClaimRace)                            *)
(* seed      the statuses the store was seeded with (SpecSeq, SpecRace,    *)
(*           SpecClaimRace)                                                *)
(* mgr       the ConnectionManager: active_connections, and where the      *)
(*           broadcast in progress is in its loop                          *)
(* wasabi    the job ids whose image the bucket holds                     *)
(* pub       the events on their way: per coroutine what it still has to  *)
(*           send, per connection the last status it received of each job,*)
(*           and the rows a bulk reset scanned                            *)
(* traits_json  the file traits.json as open() and json.load find it      *)
(***************************************************************************)
EXTENDS Integers, Sequences, FiniteSets, TLC

\* ---- bounds of the model ------------------------------------------------
NumJobs == 2

NumProcs == 2

MaxTime == 1

\* the websocket connections that can be open at once
NumConns == 2

\* ---- values ---------------------------------------------------------------
\* SQL NULL in a TIMESTAMP column (start_time TIMESTAMP NULL)
NULL == -1

\* worker_url: Optional[str] = None
NoUrl == "None"

\* the worker_url of a request that carries one
WorkerUrl == "http://worker"

Ids == 1..NumJobs

\* a job id no row has
MissingId == NumJobs + 1

ReqIds == Ids \cup {MissingId}

\* connections that may be inside get_next_job at the same time
Procs == 1..NumProcs

\* the websockets that connect to /ws
Conns == 1..NumConns

Urls == {NoUrl, WorkerUrl}

\* db.get_jobs(limit=10000) of the bulk resets
ScanLimit == 10000

\* the same limit at the size of the model: the scan reads 10000 rows of the
\* 100,000 the table is seeded with, here PageRows of NumJobs
PageRows == 1

Statuses == {"inactive", "working", "complete", "done", "error", "flagged"}

\* JobUpdate.status: str -- a request may carry any string
BadStatus == "paused"

StatusInputs == Statuses \cup {BadStatus}

VARIABLES jobs, now, pc, sel, last, returned, seed, mgr, wasabi, pub, traits_json

vars == <<jobs, now, pc, sel, last, returned, seed, mgr, wasabi, pub, traits_json>>

\* ---- rows and responses ---------------------------------------------------
\* what a SELECT that matches nothing gives (fetchone() -> None)
NoRow == [id |-> 0, status |-> "none", updated_at |-> 0]

\* SELECT id, status, created_at, updated_at FROM jobs ... (created_at is
\* written once and never read by any claim; it is left out)
RowOf(js, i) == [id |-> i, status |-> js[i].status, updated_at |-> js[i].updated_at]

NoResp == [id |-> 0, status |-> "none", updated_at |-> 0, start_time |-> NULL, worker_url |-> NoUrl]

\* JobResponse(...) built from the row dict: job.get('start_time') and
\* job.get('worker_url') are None when the row has no such key
JobResponse(row) == [id |-> row.id, status |-> row.status, updated_at |-> row.updated_at, start_time |-> NULL, worker_url |-> NoUrl]

NoEvent == [job_id |-> 0, status |-> "none", field |-> "none"]

\* {"type": "job_update", "job_id": ..., "status": ...}
JobUpdateEvent(i, s) == [job_id |-> i, status |-> s, field |-> "none"]

\* mutant: the star event carries the status key as well
JobStarEventWithStatus(i) == [job_id |-> i, status |-> "inactive", field |-> "starred"]

\* {"type": "job_update", "job_id": ..., "field": "starred"}
JobStarEvent(i) == [job_id |-> i, status |-> "none", field |-> "starred"]

\* ---- the statements of JobDatabase ---------------------------------------
InactiveIds(js) == {i \in Ids : js[i].status = "inactive"}

MinOf(S) == CHOOSE m \in S : \A x \in S : m <= x

MaxOf(S) == CHOOSE m \in S : \A x \in S : m >= x

\* mutant: ORDER BY id DESC
select_next_inactive_desc(js) == IF InactiveIds(js) = {} THEN NoRow ELSE RowOf(js, MaxOf(InactiveIds(js)))

\* mutant: the WHERE status = 'inactive' filter is lost
select_next_any(js) == RowOf(js, MinOf(Ids))

\* SELECT ... FROM jobs WHERE status = 'inactive' ORDER BY id LIMIT 1
select_next_inactive(js) == IF InactiveIds(js) = {} THEN NoRow ELSE RowOf(js, MinOf(InactiveIds(js)))

\* mutant: the UPDATE of the claim is lost
mark_working_lost(js, i, t) == js

\* UPDATE jobs SET status = 'working', updated_at = ? WHERE id = ?
mark_working(js, i, t) == [js EXCEPT ![i].status = "working", ![i].updated_at = t]

\* the worker_url column write of the claim paths
store_worker_url(js, i, w) == [js EXCEPT ![i].worker_url = w]

\* mutant: UPDATE ... WHERE id = ? (no status condition)
claim_job_unguarded(js, i, t) == IF i \in Ids THEN [jobs |-> [js EXCEPT ![i].status = "working", ![i].updated_at = t, ![i].start_time = t], ok |-> TRUE] ELSE [jobs |-> js, ok |-> FALSE]

\* mutant: start_time is not written
claim_job_no_start(js, i, t) == IF i \in Ids /\ js[i].status = "inactive" THEN [jobs |-> [js EXCEPT ![i].status = "working", ![i].updated_at = t], ok |-> TRUE] ELSE [jobs |-> js, ok |-> FALSE]

\* mutant: updated_at is touched for any existing row, the status only if inactive
claim_job_touch(js, i, t) == IF i \in Ids THEN (IF js[i].status = "inactive" THEN [jobs |-> [js EXCEPT ![i].status = "working", ![i].updated_at = t, ![i].start_time = t], ok |-> TRUE] ELSE [jobs |-> [js EXCEPT ![i].updated_at = t], ok |-> FALSE]) ELSE [jobs |-> js, ok |-> FALSE]

\* mutant: reports the claim without writing it
claim_job_report_only(js, i, t) == [jobs |-> js, ok |-> i \in Ids /\ js[i].status = "inactive"]

\* UPDATE jobs SET status = 'working', updated_at = ?, start_time = ?
\*   WHERE id = ? AND status = 'inactive';  return cursor.rowcount > 0
db_claim_job(js, i, t) == IF i \in Ids /\ js[i].status = "inactive" THEN [jobs |-> [js EXCEPT ![i].status = "working", ![i].updated_at = t, ![i].start_time = t], ok |-> TRUE] ELSE [jobs |-> js, ok |-> FALSE]

\* mutant: the UPDATE leaves the start_time column out
update_job_status_keep_start(js, i, s, t) == IF i \in Ids THEN [jobs |-> [js EXCEPT ![i].status = s, ![i].updated_at = t], ok |-> TRUE] ELSE [jobs |-> js, ok |-> FALSE]

\* mutant: the rowcount of the UPDATE is not looked at
update_job_status_always_ok(js, i, s, t) == [jobs |-> IF i \in Ids THEN [js EXCEPT ![i].status = s, ![i].updated_at = t, ![i].start_time = IF s = "working" THEN t ELSE NULL] ELSE js, ok |-> TRUE]

\* mutant: INSERT OR REPLACE, a row is written whether the id exists or not
update_job_status_upsert(js, i, s, t) == [jobs |-> [x \in DOMAIN js \cup {i} |-> IF x = i THEN [status |-> s, updated_at |-> t, start_time |-> IF s = "working" THEN t ELSE NULL, worker_url |-> NoUrl, starred |-> FALSE] ELSE js[x]], ok |-> TRUE]

\* mutant: the UPDATE also writes starred = 0
update_job_status_unstar(js, i, s, t) == IF i \in Ids THEN [jobs |-> [js EXCEPT ![i].status = s, ![i].updated_at = t, ![i].start_time = IF s = "working" THEN t ELSE NULL, ![i].starred = FALSE], ok |-> TRUE] ELSE [jobs |-> js, ok |-> FALSE]

\* mutant: the UPDATE also writes worker_url = NULL
update_job_status_clear_worker(js, i, s, t) == IF i \in Ids THEN [jobs |-> [js EXCEPT ![i].status = s, ![i].updated_at = t, ![i].start_time = IF s = "working" THEN t ELSE NULL, ![i].worker_url = NoUrl], ok |-> TRUE] ELSE [jobs |-> js, ok |-> FALSE]

\* mutant: complete and done are terminal
update_job_status_terminal(js, i, s, t) == IF i \in Ids /\ js[i].status \notin {"complete", "done"} THEN [jobs |-> [js EXCEPT ![i].status = s, ![i].updated_at = t, ![i].start_time = IF s = "working" THEN t ELSE NULL], ok |-> TRUE] ELSE [jobs |-> js, ok |-> FALSE]

\* UPDATE jobs SET status = ?, updated_at = ?, start_time = ?|NULL WHERE id = ?
\*   return cursor.rowcount > 0
db_update_job_status(js, i, s, t) == IF i \in Ids THEN [jobs |-> [js EXCEPT ![i].status = s, ![i].updated_at = t, ![i].start_time = IF s = "working" THEN t ELSE NULL], ok |-> TRUE] ELSE [jobs |-> js, ok |-> FALSE]

\* mutant: the flag is set, not flipped
toggle_star_set(js, i) == IF i \in Ids THEN [jobs |-> [js EXCEPT ![i].starred = TRUE], ok |-> TRUE] ELSE [jobs |-> js, ok |-> FALSE]

\* db.toggle_star(job_id): flips starred of the row, False if no row has the id
db_toggle_star(js, i) == IF i \in Ids THEN [jobs |-> [js EXCEPT ![i].starred = ~js[i].starred], ok |-> TRUE] ELSE [jobs |-> js, ok |-> FALSE]

\* SELECT ... FROM jobs [WHERE status = ?] ORDER BY id LIMIT ? OFFSET 0: the
\* ids of the rows it returns; status "any" stands for no status filter
get_jobs(js, limit, status) == LET M == {i \in Ids : status = "any" \/ js[i].status = status}
                               IN {i \in M : Cardinality({x \in M : x < i}) < limit}

\* mutant: the filter of reset_all_jobs is lost
NotInactiveAny(js, S) == S

\* if job["status"] != "inactive" over the rows of the scan
NotInactive(js, S) == {i \in S : js[i].status # "inactive"}

\* a bulk reset before its loop: reset_count = 0, nothing broadcast yet
BulkStart(js) == [jobs |-> js, reset_count |-> 0, events |-> <<>>, raised |-> 0]

\* mutant: the broadcast is not inside "if success:" but after the loop, for
\* the last job only
RECURSIVE ResetEachLastEvent(_, _, _, _)
ResetEachLastEvent(S, t, bad, acc) == IF S = {} THEN acc
                                      ELSE LET i == MinOf(S)
                                               r == db_update_job_status(acc.jobs, i, "inactive", t)
                                           IN IF i = bad THEN [acc EXCEPT !.raised = i]
                                              ELSE ResetEachLastEvent(S \ {i}, t, bad, IF r.ok THEN [jobs |-> r.jobs, reset_count |-> acc.reset_count + 1, events |-> <<JobUpdateEvent(i, "inactive")>>, raised |-> 0] ELSE acc)

\* for job in jobs: success = db.update_job_status(job_id, "inactive");
\* if success: reset_count += 1; await manager.broadcast(...), lowest id first.
\* bad is the job whose update raises (0: none does): the exception leaves
\* the loop for the handler's except clause
RECURSIVE ResetEach(_, _, _, _)
ResetEach(S, t, bad, acc) == IF S = {} THEN acc
                             ELSE LET i == MinOf(S)
                                      r == db_update_job_status(acc.jobs, i, "inactive", t)
                                  IN IF i = bad THEN [acc EXCEPT !.raised = i]
                                     ELSE ResetEach(S \ {i}, t, bad, IF r.ok THEN [jobs |-> r.jobs, reset_count |-> acc.reset_count + 1, events |-> Append(acc.events, JobUpdateEvent(i, "inactive")), raised |-> 0] ELSE acc)

\* for row in rows: stats[row['status']] = row['count'] over
\* SELECT status, COUNT(*) FROM jobs GROUP BY status: one key per status
\* some row holds, counted row by row
RECURSIVE GroupCount(_, _, _)
GroupCount(js, S, acc) == IF S = {} THEN acc
                          ELSE LET i == MinOf(S)
                                   s == js[i].status
                               IN GroupCount(js, S \ {i}, IF s \in DOMAIN acc THEN [acc EXCEPT ![s] = @ + 1] ELSE acc @@ (s :> 1))

NoStats == [s \in {} |-> 0]

\* mutant: only the rows with one of the six statuses are counted
get_stats_known(js) == GroupCount(js, {i \in DOMAIN js : js[i].status \in Statuses}, NoStats)

\* mutant: every one of the six statuses gets a key, zero if no row holds it
get_stats_zero_filled(js) == GroupCount(js, DOMAIN js, NoStats) @@ [s \in Statuses |-> 0]

\* JobDatabase.get_stats
db_get_stats(js) == GroupCount(js, DOMAIN js, NoStats)

\* JobDatabase.get_total_count: SELECT COUNT(*) FROM jobs [WHERE status = ?];
\* status "any" stands for no status filter
get_total_count(js, status) == Cardinality({i \in DOMAIN js : status = "any" \/ js[i].status = status})

\* get_job_by_id: SELECT id, status, created_at, updated_at, start_time
\*   FROM jobs WHERE id = ?;  dict(job) if job else None
db_get_job_by_id(js, i) == IF i \in Ids THEN [id |-> i, status |-> js[i].status, updated_at |-> js[i].updated_at, start_time |-> js[i].start_time] ELSE [id |-> 0, status |-> "none", updated_at |-> 0, start_time |-> NULL]

\* calculate_elapsed_time at clock reading t: None for no start_time, else
\* int((current_time - start_time).total_seconds()); the clock of the model
\* counts whole seconds
calculate_elapsed_time(start_time, t) == IF start_time = NULL THEN NULL ELSE t - start_time

\* elapsed_time = None; if job['status'] == 'working' and
\* job.get('start_time'): elapsed_time = calculate_elapsed_time(...)
ReadResponse(job, t) == [id |-> job.id, status |-> job.status, updated_at |-> job.updated_at, start_time |-> job.start_time, elapsed_time |-> IF job.status = "working" /\ job.start_time # NULL THEN calculate_elapsed_time(job.start_time, t) ELSE NULL]

\* except Exception as e: raise HTTPException(status_code=500, detail=str(e))
\* around every handler body: HTTPException is an Exception, so the 404 a
\* handler raises inside its try is caught and leaves as 500
except_exception(code) == 500

\* the status code of a response: 200, or what becomes of the
\* HTTPException(status_code=404) of "if not success:" / "if not job:"
http_status(ok) == IF ok THEN 200 ELSE except_exception(404)

Outcome(op, i, w, ok, resp, ev) == [op |-> op, id |-> i, w |-> w, ok |-> ok, resp |-> resp, event |-> ev, code |-> IF op \in {"init", "tick"} THEN 0 ELSE http_status(ok)]

\* ---- the connection manager -------------------------------------------
\* ConnectionManager.__init__: active_connections = set().  Beside the set:
\*   dead          the connections whose peer is gone (a send to them raises)
\*   bpc, size0, todo, disconnected   the broadcast in progress: the size of
\*                 the set when its iterator was made, the connections the
\*                 iterator has yet to yield, the list `disconnected`
\*   got           how many times each connection was sent the message of
\*                 the current broadcast
\*   start, joined, left   the set when the broadcast started, and the
\*                 connections added and discarded since
\*   outcome       how the last broadcast ended: "ok", or "raised" when an
\*                 exception left it
MgrInit == [active |-> {}, dead |-> {}, bpc |-> "idle", size0 |-> 0, todo |-> {}, disconnected |-> <<>>, got |-> [c \in Conns |-> 0], start |-> {}, joined |-> {}, left |-> {}, outcome |-> "none"]

\* the elements of a list
ListSet(q) == {q[k] : k \in DOMAIN q}

\* the connections the iterator of the broadcast in progress may yet yield
\* after the set was changed to `act`: it raises on its next step when the
\* size differs from size0 (no element is yielded); at the same size it walks
\* on through the hash table by position, which after an add (the entry goes
\* to any free slot, a full table is rebuilt) is any part of the set, and
\* after a discard alone is what was left less the discarded entry
IterAfterAdd(m, act) == IF m.bpc # "sending" THEN {m.todo} ELSE IF Cardinality(act) # m.size0 THEN {{}} ELSE SUBSET act

IterAfterDiscard(m, act, c) == IF m.bpc # "sending" THEN m.todo ELSE IF Cardinality(act) # m.size0 THEN {} ELSE m.todo \ {c}

\* self.active_connections.add(websocket)
mgr_connect(m, c, T) == [m EXCEPT !.active = @ \cup {c}, !.todo = T, !.joined = IF m.bpc = "sending" THEN @ \cup {c} ELSE @]

\* self.active_connections.discard(websocket)
mgr_disconnect(m, c) == [m EXCEPT !.active = @ \ {c}, !.dead = @ \ {c}, !.todo = IterAfterDiscard(m, m.active \ {c}, c), !.left = IF m.bpc = "sending" THEN @ \cup {c} ELSE @]

\* message = json.dumps(data); disconnected = []; for connection in ...
broadcast_enter(m) == [m EXCEPT !.bpc = "sending", !.size0 = Cardinality(m.active), !.todo = m.active, !.disconnected = <<>>, !.got = [c \in Conns |-> 0], !.start = m.active, !.joined = {}, !.left = {}, !.outcome = "none"]

\* try: await connection.send_text(message)
\* except Exception: disconnected.append(connection)
send_text(m, c) == IF c \in m.dead THEN [m EXCEPT !.disconnected = Append(@, c), !.todo = @ \ {c}] ELSE [m EXCEPT !.got[c] = @ + 1, !.todo = @ \ {c}]

\* RuntimeError: Set changed size during iteration, raised by the for
\* statement outside the try of its body
broadcast_raise(m) == [m EXCEPT !.bpc = "idle", !.todo = {}, !.outcome = "raised"]

\* for connection in disconnected: self.active_connections.discard(connection)
broadcast_exit(m) == [m EXCEPT !.bpc = "idle", !.active = @ \ ListSet(m.disconnected), !.dead = @ \ ListSet(m.disconnected), !.outcome = "ok"]

\* ---- broadcasts of several requests --------------------------------------
\* per request p the broadcast it is awaiting: its message ev and the
\* connections todo its loop has yet to send to; per connection the status of
\* the last job_update it was sent for each job; clash: the status of the
\* job was changed while a broadcast for the same job was in progress
\* scan, snapw: the rows of the scan of a bulk reset that request p has yet
\* to come to, and those of them that were working in the scan
PubInit == [todo |-> [p \in Procs |-> {}], ev |-> [p \in Procs |-> NoEvent], recv |-> [c \in Conns |-> [i \in Ids |-> "none"]], clash |-> [i \in Ids |-> FALSE], scan |-> [p \in Procs |-> {}], snapw |-> [p \in Procs |-> {}]]

\* mutant: a connection keeps the first status it was sent
ws_send_text_first(rv, c, e) == [rv EXCEPT ![c][e.job_id] = IF @ = "none" THEN e.status ELSE @]

\* await connection.send_text(message): the message is the next one
\* connection c receives
ws_send_text(rv, c, e) == [rv EXCEPT ![c][e.job_id] = e.status]

\* ---- the catalog of traits ------------------------------------------------
\* traits.json as open() and json.load find it: no such file, a file that
\* may not be read, text that is not JSON, JSON that is not an object, or an
\* object: its keys in the order of the file, each with its entry
NoTraitsFile == [kind |-> "missing", keys |-> <<>>]

\* the keys a catalog may hold: the decimal of a job id, or another string
CatalogKeys == {"1", "2", "01"}

RECURSIVE SeqsWithoutRepeats(_)
SeqsWithoutRepeats(K) == {<<>>} \cup UNION {{<<k>> \o q : q \in SeqsWithoutRepeats(K \ {k})} : k \in K}

TraitsFiles == {[kind |-> k, keys |-> <<>>] : k \in {"missing", "denied", "malformed", "not_object"}} \cup {[kind |-> "object", keys |-> q] : q \in SeqsWithoutRepeats(CatalogKeys)}

\* all_traits[key]: the entry the file holds under the key
EntryOf(key) == [filename |-> key]

\* the traits of the except clause
FallbackTraits == [filename |-> "gray_tshirt_short_hair"]

\* str(job_id)
str(i) == IF i = 0 THEN "0" ELSE IF i < 0 THEN "-" \o <<"1", "2", "3", "4", "5", "6", "7", "8", "9">>[-i] ELSE <<"1", "2", "3", "4", "5", "6", "7", "8", "9">>[i]

\* the body of get_job_preview on the file f: FileNotFoundError and
\* json.JSONDecodeError are caught and give the fallback, as does the KeyError
\* of an object without keys; PermissionError of open() and the
\* AttributeError of all_traits.keys() on JSON that is not an object are in
\* no except clause and leave the handler
load_traits(f, job_id) == IF f.kind \in {"missing", "malformed"} THEN [raised |-> FALSE, traits |-> FallbackTraits] ELSE IF f.kind \in {"denied", "not_object"} THEN [raised |-> TRUE, traits |-> FallbackTraits] ELSE IF \E k \in DOMAIN f.keys : f.keys[k] = str(job_id) THEN [raised |-> FALSE, traits |-> EntryOf(str(job_id))] ELSE IF Len(f.keys) > 0 THEN [raised |-> FALSE, traits |-> EntryOf(f.keys[((job_id - 1) % Len(f.keys)) + 1])] ELSE [raised |-> FALSE, traits |-> FallbackTraits]

\* ---- initial states --------------------------------------------------------
SeedJob(s) == [status |-> s, updated_at |-> 0, start_time |-> NULL, worker_url |-> NoUrl, starred |-> FALSE]

\* init_database of the history snapshot: the statuses are a shuffled
\* distribution over the six values; database_backup.py seeds every job
\* inactive, which is one of these
SeededJobs == [Ids -> {SeedJob(s) : s \in Statuses}]

InitRest == /\ now = 0
            /\ pc = [p \in Procs |-> "idle"]
            /\ sel = [p \in Procs |-> [row |-> NoRow, w |-> NoUrl]]
            /\ last = Outcome("init", 0, NoUrl, FALSE, NoResp, NoEvent)
            /\ returned = <<>>
            /\ mgr = MgrInit
            /\ wasabi = {}
            /\ pub = PubInit
            /\ traits_json = NoTraitsFile

Init == /\ jobs \in SeededJobs
        /\ seed = [i \in Ids |-> "untracked"]
        /\ InitRest

InitTracked == /\ jobs \in SeededJobs
               /\ seed = [i \in Ids |-> jobs[i].status]
               /\ InitRest

\* the store as database_backup.py seeds it, every job inactive (where the
\* statuses of the seed play no part)
InitNotify == /\ jobs = [i \in Ids |-> SeedJob("inactive")]
              /\ seed = [i \in Ids |-> "untracked"]
              /\ InitRest

\* ---- actions ---------------------------------------------------------------
\* datetime.now(timezone.utc) moves on
Tick == /\ now < MaxTime
        /\ now' = now + 1
        /\ last' = Outcome("tick", 0, NoUrl, FALSE, NoResp, NoEvent)
        /\ UNCHANGED <<jobs, pc, sel, returned, seed, mgr, wasabi, pub, traits_json>>

\* the claim a get_next_job call that selected `row` applies and reports:
\* the UPDATE by id, commit, return dict(job); the handler then broadcasts
\* job_update/working and answers with the JobResponse built from the row
NextJobClaim(row, w) == /\ jobs' = store_worker_url(mark_working(jobs, row.id, now), row.id, w)
                        /\ last' = Outcome("get_next_job", row.id, w, TRUE, JobResponse(row), JobUpdateEvent(row.id, "working"))

\* db.get_next_job returned None: the handler answers "No jobs available"
NextJobNone(w) == /\ jobs' = jobs
                  /\ last' = Outcome("get_next_job", 0, NoUrl, FALSE, NoResp, NoEvent)

\* POST /next-job with no other statement between its SELECT and its UPDATE
NextJobCall(w) == /\ LET row == select_next_inactive(jobs)
                     IN IF row = NoRow THEN NextJobNone(w) ELSE NextJobClaim(row, w)
                  /\ UNCHANGED <<now, pc, sel, seed, mgr, wasabi, pub, traits_json>>

get_next_job(w) == NextJobCall(w) /\ UNCHANGED returned

\* POST /job/{job_id}/claim: db.claim_job is one conditional UPDATE
ClaimJobCall(i, w) == /\ LET r == db_claim_job(jobs, i, now)
                         IN /\ jobs' = IF r.ok THEN store_worker_url(r.jobs, i, w) ELSE r.jobs
                            /\ last' = IF r.ok THEN Outcome("claim_job", i, w, TRUE, NoResp, JobUpdateEvent(i, "working")) ELSE Outcome("claim_job", 0, NoUrl, FALSE, NoResp, NoEvent)
                      /\ UNCHANGED <<now, seed, mgr, wasabi, pub, traits_json>>

claim_job(i, w) == ClaimJobCall(i, w) /\ UNCHANGED <<pc, sel, returned>>

\* POST /job/{job_id}/status: db.update_job_status is one UPDATE by id
UpdateStatusCall(i, s) == /\ LET r == db_update_job_status(jobs, i, s, now)
                             IN /\ jobs' = r.jobs
                                /\ last' = IF r.ok THEN Outcome("update_job_status", i, NoUrl, TRUE, NoResp, JobUpdateEvent(i, s)) ELSE Outcome("update_job_status", 0, NoUrl, FALSE, NoResp, NoEvent)
                          /\ UNCHANGED <<now, pc, returned, seed, mgr, wasabi, pub, traits_json>>

update_job_status(i, s) == UpdateStatusCall(i, s) /\ UNCHANGED sel

\* POST /job/{job_id}/flag
flag_job(i) == /\ LET r == db_update_job_status(jobs, i, "flagged", now)
                  IN /\ jobs' = r.jobs
                     /\ last' = IF r.ok THEN Outcome("flag_job", i, NoUrl, TRUE, NoResp, JobUpdateEvent(i, "flagged")) ELSE Outcome("flag_job", 0, NoUrl, FALSE, NoResp, NoEvent)
               /\ UNCHANGED <<now, pc, sel, returned, seed, mgr, wasabi, pub, traits_json>>

\* mutant: an exception of the storage client leaves delete_wasabi_file
delete_wasabi_file_uncaught(files, i, fault) == IF fault THEN [files |-> files, success |-> FALSE, raised |-> TRUE, message |-> "error"] ELSE IF i \in files THEN [files |-> files \ {i}, success |-> TRUE, raised |-> FALSE, message |-> "deleted"] ELSE [files |-> files, success |-> FALSE, raised |-> FALSE, message |-> "not found"]

\* delete_wasabi_file on a bucket that holds {id}.png for the ids of `files`:
\* head_object then delete_object (or rclone lsf, rclone delete), every
\* exception (fault: the storage cannot be reached or refuses) caught by
\* "except Exception as e: return False, ..."; it never raises
delete_wasabi_file(files, i, fault) == IF fault THEN [files |-> files, success |-> FALSE, raised |-> FALSE, message |-> "error"] ELSE IF i \in files THEN [files |-> files \ {i}, success |-> TRUE, raised |-> FALSE, message |-> "deleted"] ELSE [files |-> files, success |-> FALSE, raised |-> FALSE, message |-> "not found"]

\* wasabi_deletion_result = "Wasabi deletion disabled" unless
\* ENABLE_WASABI_DELETION is "true" (the default)
WasabiDisabled(files) == [files |-> files, success |-> FALSE, raised |-> FALSE, message |-> "disabled"]

\* POST /job/{job_id}/reset: the deletion of the job's image first, then the
\* update by id "regardless of Wasabi operation result"; the response carries
\* wasabi_deletion.  An exception anywhere in the handler is its 500
ResetJobCall(i, enable, fault) == /\ LET d == IF enable THEN delete_wasabi_file(wasabi, i, fault) ELSE WasabiDisabled(wasabi)
                                         r == db_update_job_status(jobs, i, "inactive", now)
                                     IN /\ wasabi' = d.files
                                        /\ jobs' = IF d.raised THEN jobs ELSE r.jobs
                                        /\ last' = IF (~d.raised) /\ r.ok THEN Outcome("reset_job", i, NoUrl, TRUE, [wasabi_deletion |-> d.message], JobUpdateEvent(i, "inactive")) ELSE Outcome("reset_job", 0, NoUrl, FALSE, NoResp, NoEvent)
                                  /\ UNCHANGED <<now, pc, returned, seed, mgr, pub, traits_json>>

reset_job(i) == ResetJobCall(i, TRUE, FALSE) /\ UNCHANGED sel

\* what a bulk reset answers and has broadcast: reset_count (none when the
\* handler answers 500) and the job_update/inactive events of its loop
BulkResponse(r) == [reset_count |-> IF r.raised = 0 THEN r.reset_count ELSE NULL, events |-> r.events]

\* the jobs the loop of a bulk reset came to: all of S, or those up to the
\* job whose update raised
LoopReached(S, raised) == IF raised = 0 THEN S ELSE {i \in S : i <= raised}

\* the handler of a bulk reset once its scan has given the rows S; the image
\* of each job the loop comes to is deleted before the job's update
BulkReset(op, S, bad) == /\ LET r == ResetEach(S, now, bad, BulkStart(jobs))
                            IN /\ jobs' = r.jobs
                               /\ wasabi' = wasabi \ LoopReached(S, r.raised)
                               /\ last' = Outcome(op, r.raised, NoUrl, r.raised = 0, BulkResponse(r), NoEvent)
                         /\ UNCHANGED <<now, pc, sel, returned, seed, mgr, pub, traits_json>>

\* POST /jobs/reset-flagged
ResetFlaggedCall(limit, bad) == BulkReset("reset_all_flagged_jobs", get_jobs(jobs, limit, "flagged"), bad)

reset_all_flagged_jobs == ResetFlaggedCall(ScanLimit, 0)

\* POST /jobs/reset-all (the second definition of the route's function, which
\* replaces the first): only jobs that are not already inactive are reset
ResetAllCall(limit, bad) == BulkReset("reset_all_jobs", NotInactive(jobs, get_jobs(jobs, limit, "any")), bad)

reset_all_jobs == ResetAllCall(ScanLimit, 0)

\* POST /job/{job_id}/star
ToggleStarCall(i) == /\ LET r == db_toggle_star(jobs, i)
                        IN /\ jobs' = r.jobs
                           /\ last' = IF r.ok THEN Outcome("toggle_star", i, NoUrl, TRUE, NoResp, JobStarEvent(i)) ELSE Outcome("toggle_star", 0, NoUrl, FALSE, NoResp, NoEvent)
                     /\ UNCHANGED <<now, pc, returned, seed, mgr, wasabi, pub, traits_json>>

toggle_star(i) == ToggleStarCall(i) /\ UNCHANGED sel

\* GET /stats
get_stats == /\ last' = Outcome("get_stats", 0, NoUrl, TRUE, db_get_stats(jobs), NoEvent)
             /\ UNCHANGED <<jobs, now, pc, sel, returned, seed, mgr, wasabi, pub, traits_json>>

Next == \/ Tick
        \/ \E w \in Urls : get_next_job(w)
        \/ \E i \in ReqIds, w \in Urls : claim_job(i, w)
        \/ \E i \in ReqIds, s \in Statuses : update_job_status(i, s)

Spec == Init /\ [][Next]_vars

\* ---- every handler that writes the store -----------------------------------
\* all requests at one reading of the clock
NextAll == \/ \E w \in Urls : get_next_job(w)
           \/ \E i \in ReqIds, w \in Urls : claim_job(i, w)
           \/ \E i \in ReqIds, s \in Statuses : update_job_status(i, s)
           \/ \E i \in ReqIds : flag_job(i)
           \/ \E i \in ReqIds : reset_job(i)
           \/ \E i \in ReqIds : toggle_star(i)
           \/ reset_all_flagged_jobs
           \/ reset_all_jobs

SpecAll == Init /\ [][NextAll]_vars

\* ---- one caller, status updates and bulk resets -----------------------------
\* the scan of a bulk reset reads the whole table, and the update of one job
\* of its loop may raise
NextReset == \/ Tick
             \/ \E i \in ReqIds, s \in Statuses : update_job_status(i, s)
             \/ \E bad \in Ids \cup {0} : ResetFlaggedCall(ScanLimit, bad)
             \/ \E bad \in Ids \cup {0} : ResetAllCall(ScanLimit, bad)

SpecReset == Init /\ [][NextReset]_vars

\* the same with a table longer than the scan's limit: the scan reads the
\* first PageRows rows that match; no update raises
NextPage == \/ Tick
            \/ \E i \in ReqIds, s \in Statuses : update_job_status(i, s)
            \/ ResetFlaggedCall(PageRows, 0)
            \/ ResetAllCall(PageRows, 0)

SpecPage == Init /\ [][NextPage]_vars

\* ---- one caller, claims, status updates and statistics ---------------------
\* all requests at one reading of the clock
NextStats == \/ \E w \in Urls : get_next_job(w)
             \/ \E i \in ReqIds, s \in StatusInputs : update_job_status(i, s)
             \/ get_stats

SpecStats == Init /\ [][NextStats]_vars

\* ---- one caller, star toggles and status updates ---------------------------
\* all requests at one reading of the clock
\* the same call, with the job_id of the request and the starred value the
\* job had before the call kept in sel[1]
toggle_star_req(i) == /\ ToggleStarCall(i)
                      /\ sel' = [sel EXCEPT ![1].row = [id |-> i, status |-> IF i \in Ids /\ jobs[i].starred THEN "starred" ELSE "unstarred", updated_at |-> 0]]

NextStar == \/ \E i \in ReqIds : toggle_star_req(i)
            \/ \E i \in ReqIds, s \in Statuses : update_job_status(i, s)

SpecStar == Init /\ [][NextStar]_vars

\* ---- one caller, claim_job and release ------------------------------------
\* the same call, with the job_id of the request kept in sel[1]
claim_job_req(i, w) == /\ ClaimJobCall(i, w)
                       /\ sel' = [sel EXCEPT ![1].row.id = i]
                       /\ UNCHANGED <<pc, returned>>

NextClaim == \/ Tick
             \/ \E i \in ReqIds, w \in Urls : claim_job_req(i, w)
             \/ \E i \in ReqIds : update_job_status(i, "inactive")

SpecClaim == Init /\ [][NextClaim]_vars

\* ---- one caller, status updates --------------------------------------------
\* the same call, with the job_id and the status of the request kept in sel[1]
update_job_status_req(i, s) == /\ UpdateStatusCall(i, s)
                               /\ sel' = [sel EXCEPT ![1].row = [id |-> i, status |-> s, updated_at |-> 0]]

NextStatus == \/ Tick
              \/ \E i \in ReqIds, s \in StatusInputs : update_job_status_req(i, s)

SpecStatus == Init /\ [][NextStatus]_vars

\* ---- one caller, get_next_job only ----------------------------------------
\* the same call, with the ids it returned kept in order
get_next_job_seq(w) == /\ NextJobCall(w)
                       /\ returned' = IF last'.ok THEN Append(returned, last'.id) ELSE returned

NextSeq == \/ Tick
           \/ \E w \in Urls : get_next_job_seq(w)

SpecSeq == InitTracked /\ [][NextSeq]_vars

\* ---- several connections ---------------------------------------------------
\* first statement of db.get_next_job on connection p: the SELECT
NextJobSelectStep(p, w, donepc) == /\ pc[p] = "idle"
                                   /\ LET row == select_next_inactive(jobs)
                                      IN IF row = NoRow
                                         THEN /\ pc' = [pc EXCEPT ![p] = donepc]
                                              /\ sel' = sel
                                              /\ NextJobNone(w)
                                         ELSE /\ pc' = [pc EXCEPT ![p] = "selected"]
                                              /\ sel' = [sel EXCEPT ![p] = [row |-> row, w |-> w]]
                                              /\ jobs' = jobs
                                              /\ last' = Outcome("select", row.id, NoUrl, FALSE, NoResp, NoEvent)
                                   /\ UNCHANGED <<now, seed, mgr, wasabi, pub, traits_json>>

\* second statement of db.get_next_job on connection p: the UPDATE of the row
\* it selected, whatever that row's status is by now
NextJobUpdateStep(p, donepc) == /\ pc[p] = "selected"
                                /\ NextJobClaim(sel[p].row, sel[p].w)
                                /\ pc' = [pc EXCEPT ![p] = donepc]
                                /\ sel' = [sel EXCEPT ![p] = [row |-> NoRow, w |-> NoUrl]]
                                /\ UNCHANGED <<now, seed, mgr, wasabi, pub, traits_json>>

next_job_select(p, w) == NextJobSelectStep(p, w, "idle") /\ UNCHANGED returned

next_job_update(p) == NextJobUpdateStep(p, "idle") /\ UNCHANGED returned

NextConc == \/ Tick
            \/ \E p \in Procs, w \in Urls : next_job_select(p, w)
            \/ \E p \in Procs : next_job_update(p)
            \/ \E i \in ReqIds, w \in Urls : claim_job(i, w)
            \/ \E i \in ReqIds, s \in Statuses : update_job_status(i, s)

SpecConc == Init /\ [][NextConc]_vars

\* ---- NumProcs connections, one get_next_job call each ----------------------
race_select(p, w) == NextJobSelectStep(p, w, "done") /\ UNCHANGED returned

race_update(p) == /\ NextJobUpdateStep(p, "done")
                  /\ returned' = Append(returned, sel[p].row.id)

NextRace == \/ Tick
            \/ \E p \in Procs, w \in Urls : race_select(p, w)
            \/ \E p \in Procs : race_update(p)

SpecRace == InitTracked /\ [][NextRace]_vars

\* ---- NumProcs connections, one claim_job call each -------------------------
race_claim(p, i, w) == /\ pc[p] = "idle"
                       /\ ClaimJobCall(i, w)
                       /\ pc' = [pc EXCEPT ![p] = "done"]
                       /\ sel' = [sel EXCEPT ![p].row.id = i]
                       /\ returned' = IF last'.ok THEN Append(returned, i) ELSE returned

NextClaimRace == \/ Tick
                 \/ \E p \in Procs, i \in ReqIds, w \in Urls : race_claim(p, i, w)

SpecClaimRace == InitTracked /\ [][NextClaimRace]_vars

\* ---- several connections, status updates -----------------------------------
\* db.update_job_status on connection p reads the clock first
\* (current_time = datetime.now(timezone.utc).isoformat()) ...
status_read_clock(p, i, s) == /\ pc[p] = "idle"
                              /\ pc' = [pc EXCEPT ![p] = "timed"]
                              /\ sel' = [sel EXCEPT ![p] = [row |-> [id |-> i, status |-> s, updated_at |-> now], w |-> NoUrl]]
                              /\ last' = Outcome("clock", 0, NoUrl, FALSE, NoResp, NoEvent)
                              /\ UNCHANGED <<jobs, now, returned, seed, mgr, wasabi, pub, traits_json>>

\* ... and then executes its UPDATE with the time it read
status_write(p) == /\ pc[p] = "timed"
                   /\ LET r == db_update_job_status(jobs, sel[p].row.id, sel[p].row.status, sel[p].row.updated_at)
                      IN /\ jobs' = r.jobs
                         /\ last' = IF r.ok THEN Outcome("update_job_status", sel[p].row.id, NoUrl, TRUE, NoResp, JobUpdateEvent(sel[p].row.id, sel[p].row.status)) ELSE Outcome("update_job_status", 0, NoUrl, FALSE, NoResp, NoEvent)
                   /\ pc' = [pc EXCEPT ![p] = "idle"]
                   /\ sel' = [sel EXCEPT ![p] = [row |-> NoRow, w |-> NoUrl]]
                   /\ UNCHANGED <<now, returned, seed, mgr, wasabi, pub, traits_json>>

NextClock == \/ Tick
             \/ \E p \in Procs, i \in ReqIds, s \in Statuses : status_read_clock(p, i, s)
             \/ \E p \in Procs : status_write(p)

SpecClock == Init /\ [][NextClock]_vars

\* ---- resets and the bucket of images -------------------------------------
\* the bucket holds the images of any of the ids, also of ids the store does
\* not hold
InitWasabi == /\ jobs \in SeededJobs
              /\ seed = [i \in Ids |-> "untracked"]
              /\ now = 0
              /\ pc = [p \in Procs |-> "idle"]
              /\ sel = [p \in Procs |-> [row |-> NoRow, w |-> NoUrl]]
              /\ last = Outcome("init", 0, NoUrl, FALSE, NoResp, NoEvent)
              /\ returned = <<>>
              /\ mgr = MgrInit
              /\ wasabi \in SUBSET ReqIds
              /\ pub = PubInit
              /\ traits_json = NoTraitsFile

\* a reset request, its job_id kept in sel[1]
reset_job_req(i, enable, fault) == /\ ResetJobCall(i, enable, fault)
                                   /\ sel' = [sel EXCEPT ![1] = [row |-> [id |-> i, status |-> "none", updated_at |-> 0], w |-> NoUrl]]

NextWasabi == \/ \E i \in ReqIds, enable \in BOOLEAN, fault \in BOOLEAN : reset_job_req(i, enable, fault)
              \/ \E i \in ReqIds, s \in Statuses : update_job_status(i, s)

SpecWasabi == InitWasabi /\ [][NextWasabi]_vars

\* ---- reads of a job ------------------------------------------------------
\* GET /job/{job_id}
get_job(i) == /\ LET job == db_get_job_by_id(jobs, i)
                 IN last' = IF job.id # 0 THEN Outcome("get_job", i, NoUrl, TRUE, ReadResponse(job, now), NoEvent) ELSE Outcome("get_job", 0, NoUrl, FALSE, NoResp, NoEvent)
              /\ UNCHANGED <<jobs, now, pc, sel, returned, seed, mgr, wasabi, pub, traits_json>>

NextRead == \/ Tick
            \/ \E w \in Urls : get_next_job(w)
            \/ \E i \in ReqIds, w \in Urls : claim_job(i, w)
            \/ \E i \in ReqIds, s \in Statuses : update_job_status(i, s)
            \/ \E i \in ReqIds : get_job(i)

SpecRead == Init /\ [][NextRead]_vars

\* ---- the status graph ------------------------------------------------------
\* status updates only, on a store whose seeded statuses are kept in seed
NextGraph == \E i \in ReqIds, s \in Statuses : update_job_status_req(i, s)

SpecGraph == InitTracked /\ [][NextGraph]_vars

\* ---- status updates whose broadcasts interleave ----------------------------
\* every websocket is connected and stays so, no send fails
InitFanout == /\ jobs = [i \in Ids |-> SeedJob("inactive")]
              /\ seed = [i \in Ids |-> "untracked"]
              /\ now = 0
              /\ pc = [p \in Procs |-> "idle"]
              /\ sel = [p \in Procs |-> [row |-> NoRow, w |-> NoUrl]]
              /\ last = Outcome("init", 0, NoUrl, FALSE, NoResp, NoEvent)
              /\ returned = <<>>
              /\ mgr = [MgrInit EXCEPT !.active = Conns]
              /\ wasabi = {}
              /\ pub = PubInit
              /\ traits_json = NoTraitsFile

\* the statuses the requests of this specification ask for
FanStatuses == {"complete", "flagged"}

\* the job they ask for
FanJob == MinOf(Ids)

\* some other request is awaiting a send of a broadcast for job i
InProgress(p, i) == \E q \in Procs \ {p} : pc[q] = "sending" /\ pub.ev[q].job_id = i

\* POST /job/{job_id}/status of request p up to its first await: the UPDATE,
\* its commit, and the broadcast as far as the send to the first connection
status_commit(p, i, s) == /\ pc[p] = "idle"
                          /\ LET r == db_update_job_status(jobs, i, s, now)
                                 e == JobUpdateEvent(i, s)
                             IN /\ r.ok
                                /\ jobs' = r.jobs
                                /\ last' = Outcome("update_job_status", i, NoUrl, TRUE, NoResp, e)
                                /\ \E c \in mgr.active : pub' = [pub EXCEPT !.recv = ws_send_text(@, c, e), !.ev[p] = e, !.todo[p] = mgr.active \ {c}, !.clash[i] = InProgress(p, i)]
                                /\ pc' = [pc EXCEPT ![p] = "sending"]
                          /\ UNCHANGED <<now, sel, returned, seed, mgr, wasabi, traits_json>>

\* the awaited send of request p is over: its loop sends to one more
\* connection, or ends and the handler answers
status_send(p) == /\ pc[p] = "sending"
                  /\ IF pub.todo[p] = {} THEN pub' = [pub EXCEPT !.ev[p] = NoEvent] /\ pc' = [pc EXCEPT ![p] = "idle"] ELSE \E c \in pub.todo[p] : pub' = [pub EXCEPT !.recv = ws_send_text(@, c, pub.ev[p]), !.todo[p] = @ \ {c}] /\ pc' = pc
                  /\ UNCHANGED <<jobs, now, sel, last, returned, seed, mgr, wasabi, traits_json>>

NextFanout == \/ \E p \in Procs, s \in FanStatuses : status_commit(p, FanJob, s)
              \/ \E p \in Procs : status_send(p)

SpecFanout == InitFanout /\ [][NextFanout]_vars

\* ---- a bulk reset among other requests -------------------------------------
\* the loop of a bulk reset awaits delete_wasabi_file before each job's update
\* and manager.broadcast after it: other handlers run in between.
\* the scan of request p: db.get_jobs(limit=10000, status="flagged"), or
\* db.get_jobs(limit=10000) less the rows that are inactive
BulkScanStep(p, op) == /\ pc[p] = "idle"
                       /\ LET S == IF op = "reset_all_flagged_jobs" THEN get_jobs(jobs, ScanLimit, "flagged") ELSE NotInactive(jobs, get_jobs(jobs, ScanLimit, "any"))
                          IN pub' = [pub EXCEPT !.scan[p] = S, !.snapw[p] = {i \in S : jobs[i].status = "working"}]
                       /\ pc' = [pc EXCEPT ![p] = "looping"]
                       /\ last' = Outcome("bulk_scan", 0, NoUrl, TRUE, NoResp, NoEvent)
                       /\ UNCHANGED <<jobs, sel, returned, seed, mgr, wasabi, traits_json>>

bulk_scan(p, op) == BulkScanStep(p, op) /\ UNCHANGED now

\* one turn of the loop: the image of the next row is gone, the row is
\* updated by id and the event is broadcast; or the loop is over
bulk_write(p) == /\ pc[p] = "looping"
                 /\ IF pub.scan[p] = {} THEN (pc' = [pc EXCEPT ![p] = "idle"]) /\ (pub' = [pub EXCEPT !.snapw[p] = {}]) /\ (last' = Outcome("bulk_done", 0, NoUrl, TRUE, NoResp, NoEvent)) /\ UNCHANGED <<jobs, wasabi>> ELSE LET i == MinOf(pub.scan[p])  r == db_update_job_status(jobs, i, "inactive", now) IN (jobs' = r.jobs) /\ (wasabi' = wasabi \ {i}) /\ (pub' = [pub EXCEPT !.scan[p] = @ \ {i}]) /\ (last' = Outcome("bulk_write", i, NoUrl, r.ok, NoResp, JobUpdateEvent(i, "inactive"))) /\ (pc' = pc)
                 /\ UNCHANGED <<now, sel, returned, seed, mgr, traits_json>>

NextBulkRace == \/ \E p \in Procs, op \in {"reset_all_flagged_jobs", "reset_all_jobs"} : bulk_scan(p, op)
                \/ \E p \in Procs : bulk_write(p)
                \/ \E i \in Ids : reset_job(i)
                \/ \E i \in Ids : flag_job(i)
                \/ \E w \in Urls : get_next_job(w)

SpecBulkRace == Init /\ [][NextBulkRace]_vars

\* ---- workers that keep asking for the next job ------------------------------
\* every connection asks for the next job again and again (its SELECT and its
\* UPDATE are two steps), and now and then runs a bulk reset; a bulk reset
\* starts at a later reading of the clock than the one before, so only
\* MaxTime of them start and from then on nothing returns a job to inactive
timed_bulk_scan(p, op) == /\ now < MaxTime
                          /\ now' = now + 1
                          /\ BulkScanStep(p, op)

NextDrain == \/ \E p \in Procs : next_job_select(p, WorkerUrl)
             \/ \E p \in Procs : next_job_update(p)
             \/ \E p \in Procs, op \in {"reset_all_flagged_jobs", "reset_all_jobs"} : timed_bulk_scan(p, op)
             \/ \E p \in Procs : bulk_write(p)

\* a connection that can ask for the next job does so in the end, and a
\* handler that has started goes on to its end
FairDrain == \A p \in Procs : WF_vars(next_job_select(p, WorkerUrl)) /\ WF_vars(next_job_update(p)) /\ WF_vars(bulk_write(p))

SpecDrain == InitNotify /\ [][NextDrain]_vars /\ FairDrain

\* ---- the preview of a job ---------------------------------------------------
\* the job ids a preview is asked for: path parameters are any int
PreviewIds == -1 .. MissingId

InitPreview == /\ jobs = [i \in Ids |-> SeedJob("inactive")]
               /\ seed = [i \in Ids |-> "untracked"]
               /\ now = 0
               /\ pc = [p \in Procs |-> "idle"]
               /\ sel = [p \in Procs |-> [row |-> NoRow, w |-> NoUrl]]
               /\ last = Outcome("init", 0, NoUrl, FALSE, NoResp, NoEvent)
               /\ returned = <<>>
               /\ mgr = MgrInit
               /\ wasabi = {}
               /\ pub = PubInit
               /\ traits_json \in TraitsFiles

\* GET /preview/{job_id}: {"traits": traits_data}, or the 500 of an exception
\* that no except clause of the handler names
get_job_preview(i) == /\ LET r == load_traits(traits_json, i)
                         IN last' = IF r.raised THEN Outcome("get_job_preview", i, NoUrl, FALSE, NoResp, NoEvent) ELSE Outcome("get_job_preview", i, NoUrl, TRUE, [traits |-> r.traits], NoEvent)
                      /\ UNCHANGED <<jobs, now, pc, sel, returned, seed, mgr, wasabi, pub, traits_json>>

NextPreview == \E i \in PreviewIds : get_job_preview(i)

SpecPreview == InitPreview /\ [][NextPreview]_vars

\* ---- the websocket endpoint and the broadcast ---------------------------
\* websocket_endpoint: await manager.connect(websocket).  A websocket is a
\* new object: within one broadcast no number stands for two of them
connect(c) == /\ c \notin mgr.active
              /\ (mgr.bpc = "sending") => (c \notin (mgr.start \cup mgr.joined))
              /\ \E T \in IterAfterAdd(mgr, mgr.active \cup {c}) : mgr' = mgr_connect(mgr, c, T)
              /\ UNCHANGED <<jobs, now, pc, sel, last, returned, seed, wasabi, pub, traits_json>>

\* the peer of a connection goes away: from now on a send to it raises and
\* its receive_text raises WebSocketDisconnect
peer_gone(c) == /\ c \in mgr.active \ mgr.dead
                /\ mgr' = [mgr EXCEPT !.dead = @ \cup {c}]
                /\ UNCHANGED <<jobs, now, pc, sel, last, returned, seed, wasabi, pub, traits_json>>

\* websocket_endpoint: except WebSocketDisconnect: manager.disconnect(websocket)
disconnect(c) == /\ c \in mgr.active \cap mgr.dead
                 /\ mgr' = mgr_disconnect(mgr, c)
                 /\ UNCHANGED <<jobs, now, pc, sel, last, returned, seed, wasabi, pub, traits_json>>

\* manager.broadcast up to its first await: the iterator is made and, unless
\* the set is empty, yields a first connection whose send_text is awaited
broadcast_begin == /\ mgr.bpc = "idle"
                   /\ LET m == broadcast_enter(mgr)
                      IN IF m.todo = {} THEN mgr' = broadcast_exit(m) ELSE \E c \in m.todo : mgr' = send_text(m, c)
                   /\ UNCHANGED <<jobs, now, pc, sel, last, returned, seed, wasabi, pub, traits_json>>

\* the awaited send is over and the for statement asks its iterator for the
\* next connection: it raises if the set has another size than at the start,
\* ends the loop if nothing is left, or yields one more connection
broadcast_next == /\ mgr.bpc = "sending"
                  /\ IF Cardinality(mgr.active) # mgr.size0 THEN mgr' = broadcast_raise(mgr) ELSE IF mgr.todo = {} THEN mgr' = broadcast_exit(mgr) ELSE \E c \in mgr.todo : mgr' = send_text(mgr, c)
                  /\ UNCHANGED <<jobs, now, pc, sel, last, returned, seed, wasabi, pub, traits_json>>

\* connections are opened and closed between broadcasts and at any await of
\* a broadcast: the handlers and the endpoints are coroutines of one loop
NextNotifyRace == \/ \E c \in Conns : connect(c)
                  \/ \E c \in Conns : peer_gone(c)
                  \/ \E c \in Conns : disconnect(c)
                  \/ broadcast_begin
                  \/ broadcast_next

SpecNotifyRace == InitNotify /\ [][NextNotifyRace]_vars

\* ---- properties ------------------------------------------------------------
SeedInactive == {i \in Ids : seed[i] = "inactive"}

\* the k-th lowest id among the jobs seeded inactive
KthInactive(k) == CHOOSE i \in SeedInactive : Cardinality({x \in SeedInactive : x < i}) = k - 1

TimesReturned(i) == Cardinality({k \in DOMAIN returned : returned[k] = i})

AllDone == \A p \in Procs : pc[p] = "done"

\* C1: concurrent get_next_job calls never return the same job id.  (In
\* SpecRace no job goes back to inactive, so the exception for a job returned
\* to inactive between two claims never applies.)
C1_NoTwoCallsReturnSameJob == \A a, b \in DOMAIN returned : a # b => returned[a] # returned[b]

\* C2: when NumProcs concurrent get_next_job calls, and nothing else, have all
\* finished on a store seeded with M <= NumProcs inactive jobs, exactly M of
\* them returned a job and no job is inactive any more.
C2_ExactlyMSucceed == (AllDone /\ Cardinality(SeedInactive) <= NumProcs) => (Len(returned) = Cardinality(SeedInactive) /\ InactiveIds(jobs) = {})

\* C3: of the concurrent claim_job calls for one id, at most one returns true.
C3_AtMostOneClaimWins == \A i \in Ids : TimesReturned(i) <= 1

\* two connections have called claim_job for the same job, seeded inactive:
\* one call returned true, the other has just returned false
C3_Witness == /\ last.op = "claim_job"
              /\ ~last.ok
              /\ \E p, q \in Procs : /\ p # q
                                     /\ pc[p] = "done"
                                     /\ pc[q] = "done"
                                     /\ sel[p].row.id = sel[q].row.id
                                     /\ sel[p].row.id \in SeedInactive
                                     /\ TimesReturned(sel[p].row.id) = 1

\* C4: a claim by either path (get_next_job or claim_job) writes working only
\* onto a job whose status is inactive at the moment the write is applied.
C4_ClaimWritesOnlyInactive == [][(last'.op \in {"get_next_job", "claim_job"} /\ last'.ok) => jobs[last'.id].status = "inactive"]_vars

\* C5: sequential get_next_job calls return the inactive jobs lowest id
\* first: the k-th call that returns a job returns the k-th lowest id seeded
\* inactive, which is k on a store seeded all inactive, and every returned job
\* is working.
C5_LowestIdFirst == /\ \A k \in DOMAIN returned : returned[k] = KthInactive(k) /\ jobs[returned[k]].status = "working"
                    /\ (SeedInactive = Ids) => (\A k \in DOMAIN returned : returned[k] = k)

\* on a store seeded all inactive, NumJobs sequential calls have returned
C5_Witness == SeedInactive = Ids /\ Len(returned) = NumJobs

\* C6: right after a successful get_next_job(worker_url) the stored job it
\* claimed is working, has a non-null start_time, carries the given
\* worker_url, and its updated_at is the time of the claim, not earlier than
\* before.
C6_ClaimedJobStored == [][(last'.op = "get_next_job" /\ last'.ok) => (/\ jobs'[last'.id].status = "working"
                                                                      /\ jobs'[last'.id].start_time # NULL
                                                                      /\ jobs'[last'.id].worker_url = last'.w
                                                                      /\ jobs'[last'.id].updated_at = now
                                                                      /\ jobs'[last'.id].updated_at >= jobs[last'.id].updated_at)]_vars

\* C7: the job a successful get_next_job returns is the updated row: status
\* working, and the updated_at and start_time the claim has just stored.
C7_ReturnsUpdatedRow == (last.op = "get_next_job" /\ last.ok) => (/\ last.resp.id = last.id
                                                                  /\ last.resp.status = "working"
                                                                  /\ last.resp.updated_at = jobs[last.id].updated_at
                                                                  /\ last.resp.start_time = jobs[last.id].start_time)

\* C8: get_next_job called when no job is inactive returns none, changes no
\* job and broadcasts no event.
C8_NoInactiveNoClaim == [][(last'.op = "get_next_job" /\ InactiveIds(jobs) = {}) => (/\ ~last'.ok
                                                                                     /\ last'.resp = NoResp
                                                                                     /\ last'.event = NoEvent
                                                                                     /\ jobs' = jobs)]_vars

\* a get_next_job call has just returned none on a store with no inactive job
C8_Witness == last.op = "get_next_job" /\ ~last.ok /\ InactiveIds(jobs) = {}

\* C9: claim_job(id) on an existing inactive job returns true and leaves it
\* working with a non-null start_time; a claim_job(id) issued right after a
\* successful claim_job(id) returns false.
C9_ClaimThenReclaim == [][last'.op = "claim_job" => LET i == sel'[1].row.id
                                                     IN /\ ((i \in Ids /\ jobs[i].status = "inactive") => (last'.ok /\ last'.id = i /\ jobs'[i].status = "working" /\ jobs'[i].start_time # NULL))
                                                        /\ ((last.op = "claim_job" /\ last.ok /\ last.id = i) => ~last'.ok)]_vars

\* a claim_job has just returned false for a job that an earlier claim_job
\* left working, start_time and updated_at both the time of that claim
C9_Witness == /\ last.op = "claim_job"
              /\ ~last.ok
              /\ sel[1].row.id \in Ids
              /\ jobs[sel[1].row.id].status = "working"
              /\ jobs[sel[1].row.id].start_time # NULL
              /\ jobs[sel[1].row.id].start_time = jobs[sel[1].row.id].updated_at

\* C10: claim_job(id) on a missing id or on a job that is not inactive
\* returns false, leaves every field of every job as it was and broadcasts no
\* event.
C10_FailedClaimChangesNothing == [][last'.op = "claim_job" => LET i == sel'[1].row.id
                                                               IN (i \notin Ids \/ jobs[i].status # "inactive") => (~last'.ok /\ jobs' = jobs /\ last'.event = NoEvent)]_vars

\* a claim_job has just failed on a job that is not inactive and carries the
\* worker_url of an earlier claim, at a time later than its updated_at
C10_Witness == /\ last.op = "claim_job"
               /\ ~last.ok
               /\ sel[1].row.id \in Ids
               /\ jobs[sel[1].row.id].status # "inactive"
               /\ jobs[sel[1].row.id].worker_url = WorkerUrl
               /\ jobs[sel[1].row.id].updated_at < now

\* C11: in every reachable state a job's start_time is non-null if and only
\* if its status is working.
C11_StartTimeIffWorking == \A i \in Ids : (jobs[i].start_time # NULL) <=> (jobs[i].status = "working")

\* the job and the status the last status-update request of SpecStatus named
\* (SpecStar: the job of the last toggle and its starred value before it)
ReqId == sel[1].row.id

ReqStatus == sel[1].row.status

\* C12: update_job_status(id, working) on an existing job sets start_time to
\* a non-null value, update_job_status(id, s) with any other s sets it to
\* null whatever the job's status was, and both set updated_at to the time of
\* the update, which is not earlier than the updated_at the job had.
C12_UpdateSetsStartTime == [][(last'.op = "update_job_status" /\ ReqId' \in Ids) => ((ReqStatus' = "working" => jobs'[ReqId'].start_time # NULL) /\ (ReqStatus' # "working" => jobs'[ReqId'].start_time = NULL) /\ (jobs'[ReqId'].updated_at = now) /\ (jobs'[ReqId'].updated_at >= jobs[ReqId'].updated_at))]_vars

\* an update to a status other than working has just cleared the start_time
\* of a job that an earlier update to working had set, at a later time
C12_Witness == /\ last.op = "update_job_status"
               /\ last.ok
               /\ ReqStatus = "done"
               /\ jobs[ReqId].start_time = NULL
               /\ jobs[ReqId].updated_at > 0

\* C13: update_job_status on an id that is not in the store returns false,
\* changes no job and broadcasts no event.
C13_UpdateMissingId == [][(last'.op = "update_job_status" /\ ReqId' \notin Ids) => (~last'.ok /\ jobs' = jobs /\ last'.event = NoEvent)]_vars

\* an update for an id no row has has just returned false
C13_Witness == last.op = "update_job_status" /\ ~last.ok /\ ReqId = MissingId

\* C14: in every reachable state the status of every job is one of the six
\* values.
C14_StatusIsOneOfSix == \A i \in Ids : jobs[i].status \in Statuses

\* C15: a status-update request whose status is not one of the six values
\* reports failure, leaves the jobs unchanged and broadcasts no event.
C15_BadStatusRejected == [][(last'.op = "update_job_status" /\ ReqStatus' \notin Statuses) => (~last'.ok /\ jobs' = jobs /\ last'.event = NoEvent)]_vars

\* C16: the updated_at of a job never decreases, also when the mutations of
\* several connections interleave and each reads the clock before its write
\* is applied.
C16_UpdatedAtNeverDecreases == [][\A i \in Ids : jobs'[i].updated_at >= jobs[i].updated_at]_vars

\* C17: the set of job ids is the same in every reachable state: no handler
\* adds or removes a row.
C17_IdsNeverChange == DOMAIN jobs = Ids

\* a reset-all has just reset every job, one of them starred
C17_Witness == /\ last.op = "reset_all_jobs"
               /\ last.resp.reset_count = NumJobs
               /\ \E i \in Ids : jobs[i].starred

\* C18: two consecutive toggle_star calls for one existing job, with nothing
\* in between, leave the job's starred value as it was before the first;
\* toggle_star for an id no row has fails and changes nothing.
C18_ToggleTwiceRestores == [][((last.op = "toggle_star" /\ last.ok /\ last'.op = "toggle_star" /\ ReqId' = ReqId) => (jobs'[ReqId].starred = (ReqStatus = "starred"))) /\ ((last'.op = "toggle_star" /\ ReqId' \notin Ids) => (~last'.ok /\ jobs' = jobs))]_vars

\* the second of two consecutive toggles of a job that was starred before
\* the first has just returned
C18_Witness == /\ last.op = "toggle_star"
               /\ last.ok
               /\ ReqStatus = "unstarred"
               /\ jobs[ReqId].starred

\* the handlers that write a status
StatusOps == {"get_next_job", "claim_job", "update_job_status", "flag_job", "reset_job", "reset_all_flagged_jobs", "reset_all_jobs"}

\* C19: get_next_job, claim_job, update_job_status, the single reset and the
\* bulk resets leave the starred value of every job unchanged, and
\* toggle_star leaves the status, start_time and worker_url of every job
\* unchanged.
C19_StarredIndependent == [][(last'.op \in StatusOps => (\A i \in Ids : jobs'[i].starred = jobs[i].starred)) /\ (last'.op = "toggle_star" => (\A i \in Ids : jobs'[i].status = jobs[i].status /\ jobs'[i].start_time = jobs[i].start_time /\ jobs'[i].worker_url = jobs[i].worker_url))]_vars

\* a toggle has just un-starred a job that was claimed by a worker while it
\* was starred
C19_Witness == /\ last.op = "toggle_star"
               /\ last.ok
               /\ ~jobs[last.id].starred
               /\ jobs[last.id].status = "working"
               /\ jobs[last.id].start_time # NULL
               /\ jobs[last.id].worker_url = WorkerUrl

\* C20: the worker_url of a job changes only in a step that claims the job
\* or resets it to inactive; status updates to complete, done, error or
\* flagged and star toggles leave it as the claim stored it.
C20_WorkerUrlRetained == [][\A i \in Ids : (jobs'[i].worker_url # jobs[i].worker_url) => ((last'.op \in {"get_next_job", "claim_job"} /\ last'.ok /\ last'.id = i) \/ (last'.op \in {"update_job_status", "reset_job", "reset_all_flagged_jobs", "reset_all_jobs"} /\ jobs'[i].status = "inactive"))]_vars

\* a status update to done has just been applied to a starred job that
\* still carries the worker_url of its claim
C20_Witness == /\ last.op = "update_job_status"
               /\ last.ok
               /\ jobs[last.id].status = "done"
               /\ jobs[last.id].starred
               /\ jobs[last.id].worker_url = WorkerUrl

RECURSIVE SumOver(_, _)
SumOver(f, S) == IF S = {} THEN 0 ELSE LET x == CHOOSE y \in S : TRUE IN f[x] + SumOver(f, S \ {x})

\* C21: the counts get_stats returns add up to get_total_count() with no
\* filter, which is the number of seeded jobs.
C21_StatsSumIsTotal == (last.op = "get_stats") => ((SumOver(last.resp, DOMAIN last.resp) = get_total_count(jobs, "any")) /\ (get_total_count(jobs, "any") = NumJobs))

\* get_stats has just answered for a store that holds a job whose status is
\* none of the six
C21_Witness == last.op = "get_stats" /\ (\E i \in Ids : jobs[i].status = BadStatus)

\* C22: get_stats has a key for exactly the statuses some job holds, and the
\* count under a key is the number of jobs with that status.
C22_StatsExactCounts == (last.op = "get_stats") => ((DOMAIN last.resp = {jobs[i].status : i \in Ids}) /\ (\A s \in DOMAIN last.resp : last.resp[s] = Cardinality({i \in Ids : jobs[i].status = s})))

\* get_stats has just answered {inactive: NumJobs - 1, working: 1}
C22_Witness == /\ last.op = "get_stats"
               /\ DOMAIN last.resp = {"inactive", "working"}
               /\ last.resp["working"] = 1
               /\ last.resp["inactive"] = NumJobs - 1

BulkOps == {"reset_all_flagged_jobs", "reset_all_jobs"}

\* the jobs a step has taken from another status to inactive
ResetInStep == {i \in Ids : jobs[i].status # "inactive" /\ jobs'[i].status = "inactive"}

\* how many events of a bulk response are job_update/inactive for job i
EventsFor(resp, i) == Cardinality({k \in DOMAIN resp.events : resp.events[k] = JobUpdateEvent(i, "inactive")})

\* C23: a reset-all that directly follows a completed reset-all reports
\* reset_count = 0 and broadcasts no event.
C23_SecondResetAllIsEmpty == [][(last.op = "reset_all_jobs" /\ last.ok /\ last'.op = "reset_all_jobs") => ((last'.resp.reset_count = 0) /\ (last'.resp.events = <<>>) /\ (jobs' = jobs))]_vars

\* a reset-all has just answered reset_count = 0 on a store in which every
\* job was reset to inactive at the present time
C23_Witness == /\ last.op = "reset_all_jobs"
               /\ last.resp.reset_count = 0
               /\ last.resp.events = <<>>
               /\ now > 0
               /\ \A i \in Ids : jobs[i].status = "inactive" /\ jobs[i].updated_at = now

\* C24: when a reset-all has completed, every job of the store is inactive,
\* also the jobs beyond the rows its scan reads.
C24_ResetAllResetsEveryJob == [][(last'.op = "reset_all_jobs" /\ last'.ok) => (\A i \in Ids : jobs'[i].status = "inactive")]_vars

\* C25: the reset_count a bulk reset reports is the number of jobs its loop
\* reset, and it broadcasts exactly one job_update/inactive event for each job
\* it reset and no other event.
C25_BulkCountAndEvents == [][(last'.op \in BulkOps) => ((last'.ok => (last'.resp.reset_count = Cardinality(ResetInStep))) /\ (Len(last'.resp.events) = Cardinality(ResetInStep)) /\ (\A i \in Ids : EventsFor(last'.resp, i) = (IF i \in ResetInStep THEN 1 ELSE 0)))]_vars

\* a bulk reset has just reset every job of the store and broadcast one event
\* for each
C25_Witness == /\ last.op \in BulkOps
               /\ last.ok
               /\ last.resp.reset_count = NumJobs
               /\ Len(last.resp.events) = NumJobs

\* C26: a failure on one job of a bulk reset does not abort the loop: every
\* other job of the scan is reset and the call reports a count.
C26_BulkFailureDoesNotAbort == [][(last'.op \in BulkOps) => ((last'.resp.reset_count # NULL) /\ (\A i \in Ids : ((i # last'.id) /\ (IF last'.op = "reset_all_jobs" THEN jobs[i].status # "inactive" ELSE jobs[i].status = "flagged")) => (jobs'[i].status = "inactive")))]_vars

\* ---- events -------------------------------------------------------------
\* the job_update events a request published: the one event of a single-job
\* handler, the events of the loop of a bulk reset
PublishedUpdates(l) == IF l.op \in BulkOps THEN {l.resp.events[k] : k \in DOMAIN l.resp.events} ELSE IF l.event # NoEvent /\ l.event.field = "none" THEN {l.event} ELSE {}

\* C27: a job_update event with status s for job j is published only after
\* the store mutation that set j to s has committed (the store holds status
\* s for j once the handler is done), and a request whose store mutation
\* fails publishes no event.
C27_EventAfterCommit == [][((\A e \in PublishedUpdates(last') : (e.job_id \in Ids) /\ (jobs'[e.job_id].status = e.status)) /\ ((~last'.ok) => ((PublishedUpdates(last') = {}) /\ (last'.event = NoEvent) /\ (jobs' = jobs))))]_vars

\* a claim that succeeded: the job is working in the store and the event
\* job_update/working for it is out
C27_Witness == last.op = "claim_job" /\ last.ok /\ last.event = JobUpdateEvent(last.id, "working") /\ jobs[last.id].status = "working"

\* ---- the broadcast ---------------------------------------------------------
\* a step in which a broadcast that was awaiting a send comes to its end
BroadcastEnds == mgr.bpc = "sending" /\ mgr'.bpc = "idle"

\* how many times the broadcast called send_text for connection c
Attempts(m, c) == m.got[c] + Cardinality({k \in DOMAIN m.disconnected : m.disconnected[k] = c})

\* C28: when the send to a subscriber fails during a publish, that subscriber
\* is removed from the active set, every other registered subscriber still
\* receives the event, and the publish does not fail: of the subscribers
\* registered when it started, those whose send failed are out of the set and
\* the others have the event.
C28_SendFailureIsolated == [][(BroadcastEnds /\ (mgr'.disconnected # <<>>)) => ((mgr'.outcome = "ok") /\ (\A c \in mgr'.start : IF c \in ListSet(mgr'.disconnected) THEN c \notin mgr'.active ELSE mgr'.got[c] >= 1))]_vars

\* C29: a subscribe or unsubscribe between two sends of a publish in progress
\* never makes the publish fail, and every subscriber registered from the
\* start of the publish to its end is sent the event.
C29_RaceDoesNotFailPublish == [][BroadcastEnds => ((mgr'.outcome = "ok") /\ (\A c \in (mgr'.start \ mgr'.left) : Attempts(mgr', c) >= 1))]_vars

\* C30: each publish delivers the event at most once to each subscriber and
\* calls send_text for every subscriber that was registered when it started.
C30_AtMostOnceToEveryStarter == [][BroadcastEnds => ((\A c \in Conns : mgr'.got[c] <= 1) /\ (\A c \in mgr'.start : Attempts(mgr', c) >= 1))]_vars

\* ---- event shapes ----------------------------------------------------------
\* the events the last request published, of either shape
Published(l) == IF l.op \in BulkOps THEN {l.resp.events[k] : k \in DOMAIN l.resp.events} ELSE IF l.event # NoEvent THEN {l.event} ELSE {}

\* C31: the two event shapes are mutually exclusive: every event of a star
\* toggle carries field = starred and no status, and every event of a claim,
\* status update, flag or reset carries a status and no field.
C31_EventShapesExclusive == \A e \in Published(last) : IF last.op = "toggle_star" THEN ((e.field = "starred") /\ (e.status = "none")) ELSE ((e.field = "none") /\ (e.status \in Statuses))

\* a star toggle has published its event
C31_Witness == last.op = "toggle_star" /\ last.ok /\ last.event.job_id = last.id /\ last.event.field = "starred"

\* ---- resets and the bucket of images ----------------------------------------
\* C32: a failure of the object-storage deletion never blocks or fails the
\* reset: for an existing job, reset sets the status to inactive and
\* publishes the event whether the deletion succeeded, reported not-found or
\* raised.
C32_DeletionNeverBlocksReset == [][((last'.op = "reset_job") /\ (sel'[1].row.id \in Ids)) => (last'.ok /\ (jobs'[sel'[1].row.id].status = "inactive") /\ (last'.event = JobUpdateEvent(sel'[1].row.id, "inactive")))]_vars

\* the storage client raised during the deletion and the job is reset
C32_Witness == last.op = "reset_job" /\ last.ok /\ last.resp.wasabi_deletion = "error" /\ jobs[last.id].status = "inactive" /\ last.id \in wasabi

\* C38: the deletion of a job's file is attempted only for a job that the
\* same request then resets: a single reset on an id that is not in the
\* store deletes nothing.
C38_NoDeletionForMissingJob == [][((last'.op = "reset_job") /\ (sel'[1].row.id \notin Ids)) => (wasabi' = wasabi)]_vars

\* ---- status codes ------------------------------------------------------------
\* C33: an expected not-found outcome (missing id, failed claim, no job
\* available) reaches the caller as a not-found result, distinct from the
\* generic failure.
C33_NotFoundIsNotGenericFailure == ((last.op \in {"get_next_job", "claim_job", "update_job_status"}) /\ (~last.ok)) => ((last.code = 404) /\ (last.code # 500))

\* ---- elapsed time ------------------------------------------------------------
\* C34: a read of a job reports elapsed_time = now - start_time in whole
\* seconds, not negative, exactly when the job is working and has a
\* start_time, and null for every job that is not working; a job claimed at
\* time T (its last status write, updated_at) and read later while still
\* working reports the seconds since T.
C34_ElapsedTime == ((last.op = "get_job") /\ last.ok) => ((IF (jobs[last.id].status = "working") /\ (jobs[last.id].start_time # NULL) THEN ((last.resp.elapsed_time = now - jobs[last.id].start_time) /\ (last.resp.elapsed_time >= 0)) ELSE (last.resp.elapsed_time = NULL)) /\ ((jobs[last.id].status = "working" /\ jobs[last.id].updated_at > 0) => (last.resp.elapsed_time = now - jobs[last.id].updated_at)))

\* ---- the status graph --------------------------------------------------------
\* C35: no status is terminal: for every existing job and every ordered pair
\* of statuses (s, t) among the six, an update to t of a job in status s
\* succeeds and leaves the job in status t.
C35_NoTerminalStatus == [][((last'.op = "update_job_status") /\ (ReqId' \in Ids) /\ (jobs[ReqId'].status \in Statuses) /\ (ReqStatus' \in Statuses)) => (last'.ok /\ (jobs'[ReqId'].status = ReqStatus') /\ (last'.id = ReqId'))]_vars

\* a job seeded done has been put back to work by an update, and another
\* seeded complete has been made inactive
C35_Witness == last.op = "update_job_status" /\ last.ok /\ (\E i, j \in Ids : (seed[i] = "done") /\ (jobs[i].status = "working") /\ (seed[j] = "complete") /\ (jobs[j].status = "inactive"))

\* ---- what subscribers have seen ----------------------------------------------
\* no request is inside a handler
AllIdle == \A p \in Procs : pc[p] = "idle"

\* the last job_update every connection was sent for job i is its stored status
SeenIsStored(i) == \A c \in Conns : (pub.recv[c][i] # "none") => (pub.recv[c][i] = jobs[i].status)

C37_BulkSparesClaimedJob == [][\A p \in Procs : ((pc[p] = "looping") /\ (pub.scan[p] # {}) /\ (pub'.scan[p] # pub.scan[p]) /\ (MinOf(pub.scan[p]) \notin pub.snapw[p]) /\ (jobs[MinOf(pub.scan[p])].status = "working")) => (jobs'[MinOf(pub.scan[p])].status = "working")]_vars

\* ---- the queue drains --------------------------------------------------------
\* C39: with a finite job set, workers that keep asking for the next job and,
\* from some time on, no operation that returns a job to inactive: in the end
\* no job is inactive and every call for the next job returns none; and every
\* call for the next job and every loop of a bulk reset comes to its end.
C39_QueueDrains == (<>[]((InactiveIds(jobs) = {}) /\ (last.op = "get_next_job") /\ (~last.ok))) /\ (\A p \in Procs : (pc[p] # "idle") ~> (pc[p] = "idle"))

\* after a reset of all jobs the workers have claimed every job, and the call
\* that followed returned none
C39_Witness == (now > 0) /\ (\A i \in Ids : jobs[i].status = "working" /\ jobs[i].updated_at > 0) /\ (last.op = "get_next_job") /\ (~last.ok) /\ (\A p \in Procs : pc[p] = "idle")

\* ---- the preview of a job -----------------------------------------------------
\* the keys of the catalog when it is a readable object, none otherwise
KeysOf(f) == IF f.kind = "object" THEN f.keys ELSE <<>>

\* C40: the preview of job id is the catalog entry keyed by the stringified
\* id when present; otherwise the entry at index (id - 1) mod n of the
\* catalog's n keys in insertion order; and the fixed default when the
\* catalog is empty or unreadable.  It changes no job and publishes no event.
C40_PreviewLookup == [][(last'.op = "get_job_preview") => (last'.ok /\ (last'.resp.traits = (IF \E k \in DOMAIN KeysOf(traits_json) : KeysOf(traits_json)[k] = str(last'.id) THEN EntryOf(str(last'.id)) ELSE IF Len(KeysOf(traits_json)) > 0 THEN EntryOf(KeysOf(traits_json)[((last'.id - 1) % Len(KeysOf(traits_json))) + 1]) ELSE FallbackTraits)) /\ (jobs' = jobs) /\ (last'.event = NoEvent))]_vars

====
